---- MODULE Spec2Model ----
(***************************************************************************)
(* Model of ralph-cli's iteration supervisor (internal/loop), its stale    *)
(* detector, the cumulative statistics (internal/stream) and the run       *)
(* record store (internal/state).                                          *)
(*                                                                         *)
(*   Spec          the loop  Run(ctx, opts, w)  as a state machine         *)
(*   SpecDetector  the StaleDetector alone, driven by arbitrary Check      *)
(*                 calls                                                   *)
(***************************************************************************)
EXTENDS Integers, Sequences, FiniteSets, TLC

VARIABLES
    \* ---- StaleDetector under test (SpecDetector) ----
    cfg,          \* the max_stale handed to NewStaleDetector
    det,          \* the detector: [maxStale, staleCount, lastHead]
    ref,          \* a detector built with max_stale = 2, given the same calls
    calls,        \* log of the Check calls made on det, oldest first
    \* ---- CumulativeStats under test (SpecStats) ----
    acc,          \* the accumulator
    folded,       \* the IterationStats given to Update, oldest first
    \* ---- stream.Process under test (SpecStream) ----
    input,        \* the lines of the stream Process reads
    scanned,      \* how many of them the parser's scanner has consumed
    events,       \* the events Parser.Next has returned, oldest first
    procStats,    \* Process's *IterationStats
    sink,         \* what the formatter has written to w, oldest first
    procErr,      \* the error Process returned ("running" until it returns)
    procRet,      \* the (*IterationStats, error) pair Process returned
    \* ---- the run-record store under test (SpecStore) ----
    file,         \* the state file on disk: [kind, data]
    lastLoad,     \* the last state.Load call since the last Save, and what
                  \* it returned
    lastSave,     \* the last state.Save call and what it was given
    \* ---- the iteration logs of one run (SpecLogs) ----
    clock,        \* the wall clock time.Now() reads, in ticks
    logFiles,     \* the files of the logs directory: name -> content
    logW,         \* the *logfile.Writer of the running iteration
    logPaths,     \* logPaths of Run
    consumed,     \* per started iteration, what the parser's reader was handed
    logPc,        \* position inside Run's loop
    \* ---- stream.FormatTokens under test (SpecTokens) ----
    tokenCount,   \* the n handed to FormatTokens
    tokenText,    \* what FormatTokens returned ("" before the call)
    \* ---- Run (Spec) ----
    pc,           \* position inside Run
    opts,         \* *Options : [MaxIterations, StateFile]
    ctxErr,       \* ctx.Err() != nil
    i,            \* loop index of Run
    stale,        \* the loop's StaleDetector
    cumStats,     \* *stream.CumulativeStats
    headBefore,   \* headBefore of the running iteration
    cancelled,    \* local of Run
    staleAborted, \* local of Run
    store,        \* the state file on disk: [kind, data]
    result,       \* what Run returned ("none" while it runs)
    \* ---- observation of one run (history variables) ----
    obs

vars == <<cfg, det, ref, calls, acc, folded,
          input, scanned, events, procStats, sink, procErr, procRet,
          file, lastLoad, lastSave,
          clock, logFiles, logW, logPaths, consumed, logPc,
          tokenCount, tokenText,
          pc, opts, ctxErr, i, stale, cumStats, headBefore,
          cancelled, staleAborted, store, result, obs>>

detVars == <<cfg, det, ref, calls>>

statVars == <<acc, folded>>

streamVars == <<input, scanned, events, procStats, sink, procErr, procRet>>

loopVars == <<pc, opts, ctxErr, i, stale, cumStats, headBefore,
              cancelled, staleAborted, store, result, obs>>

\* what the steps of one part leave alone
storeVars == <<file, lastLoad, lastSave>>

logVars == <<clock, logFiles, logW, logPaths, consumed, logPc>>

tokenVars == <<tokenCount, tokenText>>

outsideLoop == <<detVars, statVars, streamVars, storeVars, logVars, tokenVars>>
outsideDet == <<loopVars, statVars, streamVars, storeVars, logVars, tokenVars>>
outsideStats == <<loopVars, detVars, streamVars, storeVars, logVars, tokenVars>>
outsideStream == <<loopVars, detVars, statVars, storeVars, logVars, tokenVars>>
outsideStore == <<loopVars, detVars, statVars, streamVars, logVars, tokenVars>>
outsideLogs == <<loopVars, detVars, statVars, streamVars, storeVars, tokenVars>>
outsideTokens == <<loopVars, detVars, statVars, streamVars, storeVars, logVars>>

----------------------------------------------------------------------------
(* Bounds of the model *)

\* Check calls made on a detector in SpecDetector
MaxChecks == 4
\* largest threshold handed to NewStaleDetector in SpecDetector
MaxThreshold == 3
\* largest iteration budget (Options.MaxIterations) tried
MaxBudget == 3
\* iterations an unbounded loop is followed for
MaxRun == 3
\* largest token count of one iteration's statistics
MaxTokens == 1
\* largest cost of one iteration (in whole units)
MaxCost == 1
\* Update calls made on an accumulator in SpecStats
MaxFolds == 3
\* lines of a stream given to Process in SpecStream
MaxLines == 3
\* lines of a stream given to the parser in SpecParser
MaxParsed == 4
\* records of a history given to state.Save in SpecStore
MaxHistory == 2
\* ticks the clock is followed for in SpecLogs
MaxClock == 3
\* iterations started in SpecLogs
MaxLogged == 2
\* lines the agent writes in one iteration in SpecLogs
MaxRead == 2
\* how far around each boundary the token counts given to FormatTokens go
MaxSpread == 3

----------------------------------------------------------------------------
(* StaleDetector *)

\* const DefaultMaxStale = 2
DefaultMaxStale == 2

\* the strings handed to Check in SpecDetector; "" is the zero string
RevisionStrings == {"", "a", "b"}

\* what git.Head() returns on success: trimmed `git rev-parse HEAD` output
Revisions == {"a", "b"}

\* a constructor that takes 0 as a threshold and defaults negative values only
NewStaleDetectorNegativeOnly(maxStale) ==
    [maxStale   |-> IF maxStale < 0 THEN DefaultMaxStale ELSE maxStale,
     staleCount |-> 0,
     lastHead   |-> ""]

\* NewStaleDetector(maxStale int) *StaleDetector
NewStaleDetector(maxStale) ==
    [maxStale   |-> IF maxStale <= 0 THEN DefaultMaxStale ELSE maxStale,
     staleCount |-> 0,
     lastHead   |-> ""]

\* a Check without the unseeded branch
CheckNoSeed(d, currentHead) ==
    LET n == IF currentHead = d.lastHead THEN d.staleCount + 1 ELSE 0
    IN  [d          |-> [d EXCEPT !.staleCount = n, !.lastHead = currentHead],
         abort      |-> n >= d.maxStale,
         staleCount |-> n]

\* a Check that keeps the count when the revision changes
CheckNoReset(d, currentHead) ==
    IF d.lastHead = ""
    THEN [d |-> [d EXCEPT !.lastHead = currentHead], abort |-> FALSE, staleCount |-> 0]
    ELSE LET n == IF currentHead = d.lastHead THEN d.staleCount + 1 ELSE d.staleCount
         IN  [d          |-> [d EXCEPT !.staleCount = n, !.lastHead = currentHead],
              abort      |-> n >= d.maxStale,
              staleCount |-> n]

\* a Check that aborts one observation late
CheckLate(d, currentHead) ==
    IF d.lastHead = ""
    THEN [d |-> [d EXCEPT !.lastHead = currentHead], abort |-> FALSE, staleCount |-> 0]
    ELSE LET n == IF currentHead = d.lastHead THEN d.staleCount + 1 ELSE 0
         IN  [d          |-> [d EXCEPT !.staleCount = n, !.lastHead = currentHead],
              abort      |-> n > d.maxStale,
              staleCount |-> n]

\* (d *StaleDetector) Check(currentHead) (abort bool, staleCount int);
\* .d is the detector after the call
Check(d, currentHead) ==
    IF d.lastHead = ""
    THEN [d |-> [d EXCEPT !.lastHead = currentHead], abort |-> FALSE, staleCount |-> 0]
    ELSE LET n == IF currentHead = d.lastHead THEN d.staleCount + 1 ELSE 0
         IN  [d          |-> [d EXCEPT !.staleCount = n, !.lastHead = currentHead],
              abort      |-> n >= d.maxStale,
              staleCount |-> n]

\* (d *StaleDetector) MaxStale()
MaxStale(d) == d.maxStale

----------------------------------------------------------------------------
(* Stats model *)

\* stream.IterationStats as the loop reads it (PeakContext, Cost,
\* SubagentTokens): an empty stream, one costly turn, one sub-agent result
IterStatsDomain ==
    {[PeakContext |-> 0, Cost |-> 0, SubagentTokens |-> 0],
     [PeakContext |-> MaxTokens + 1, Cost |-> MaxCost, SubagentTokens |-> 0],
     [PeakContext |-> MaxTokens, Cost |-> 0, SubagentTokens |-> MaxTokens]}

\* &stream.CumulativeStats{}
ZeroCumStats ==
    [Iterations |-> 0, PeakContext |-> 0, SubagentTokens |-> 0, TotalCost |-> 0]

\* an Update that takes the last peak
UpdateLastPeak(c, iter) ==
    [Iterations     |-> c.Iterations + 1,
     PeakContext    |-> iter.PeakContext,
     SubagentTokens |-> c.SubagentTokens + iter.SubagentTokens,
     TotalCost      |-> c.TotalCost + iter.Cost]

\* an Update that adds the peaks up
UpdateSumPeak(c, iter) ==
    [Iterations     |-> c.Iterations + 1,
     PeakContext    |-> c.PeakContext + iter.PeakContext,
     SubagentTokens |-> c.SubagentTokens + iter.SubagentTokens,
     TotalCost      |-> c.TotalCost + iter.Cost]

\* (c *CumulativeStats) Update(iter *IterationStats)
Update(c, iter) ==
    [Iterations     |-> c.Iterations + 1,
     PeakContext    |-> IF iter.PeakContext > c.PeakContext
                        THEN iter.PeakContext ELSE c.PeakContext,
     SubagentTokens |-> c.SubagentTokens + iter.SubagentTokens,
     TotalCost      |-> c.TotalCost + iter.Cost]

----------------------------------------------------------------------------
(* Events and lines of the agent's stream *)

\* *Usage; present = FALSE is the nil pointer
NoUsage ==
    [present |-> FALSE, InputTokens |-> 0, OutputTokens |-> 0,
     CacheCreationInputTokens |-> 0, CacheReadInputTokens |-> 0]

UsageOf(in, out, creation, read) ==
    [present |-> TRUE, InputTokens |-> in, OutputTokens |-> out,
     CacheCreationInputTokens |-> creation, CacheReadInputTokens |-> read]

\* ContentBlock as Process and the formatter read it: Type, Name and whether
\* Input is a JSON object ("object"), another JSON value ("scalar") or absent
BlockOf(type, name, in) == [Type |-> type, Name |-> name, Input |-> in]

\* *Message; present = FALSE is the nil pointer
NoMessage == [present |-> FALSE, Usage |-> NoUsage, Content |-> <<>>]

MessageOf(usage, content) ==
    [present |-> TRUE, Usage |-> usage, Content |-> content]

\* *ToolUseResult; present = FALSE is the nil pointer
NoToolUseResult == [present |-> FALSE, Status |-> "", TotalTokens |-> 0]

ToolUseResultOf(status, totalTokens) ==
    [present |-> TRUE, Status |-> status, TotalTokens |-> totalTokens]

\* Event
EventOf(type, message, toolUseResult, totalCostUSD) ==
    [Type |-> type, Message |-> message, ToolUseResult |-> toolUseResult,
     TotalCostUSD |-> totalCostUSD]

\* var evt Event
ZeroEvent == EventOf("", NoMessage, NoToolUseResult, 0)

eventAssistant == "assistant"
eventUser == "user"
eventResult == "result"
contentToolUse == "tool_use"

\* the events tried: every branch of Process and of the formatter
EventSamples ==
    {EventOf("system", NoMessage, NoToolUseResult, 0),
     EventOf("rate_limit", NoMessage, NoToolUseResult, 0),
     EventOf(eventAssistant, NoMessage, NoToolUseResult, 0),
     EventOf(eventAssistant,
             MessageOf(UsageOf(MaxTokens, MaxTokens + 2, 0, 0),
                       <<BlockOf("text", "", "absent")>>),
             NoToolUseResult, 0),
     EventOf(eventAssistant,
             MessageOf(UsageOf(MaxTokens, 0, MaxTokens, 1),
                       <<BlockOf(contentToolUse, "Bash", "object"),
                         BlockOf("thinking", "", "absent")>>),
             NoToolUseResult, 0),
     EventOf(eventAssistant,
             MessageOf(NoUsage, <<BlockOf(contentToolUse, "Task", "object")>>),
             NoToolUseResult, 0),
     EventOf(eventAssistant,
             MessageOf(UsageOf(0, MaxTokens, 0, 0),
                       <<BlockOf(contentToolUse, "Task", "absent"),
                         BlockOf("text", "", "absent")>>),
             NoToolUseResult, 0),
     EventOf(eventUser, NoMessage, NoToolUseResult, 0),
     EventOf(eventUser, NoMessage, ToolUseResultOf("", 0), 0),
     EventOf(eventUser, NoMessage, ToolUseResultOf("completed", MaxTokens), 0),
     EventOf(eventUser, NoMessage, ToolUseResultOf("error", MaxTokens + 1), 0),
     EventOf(eventResult, NoMessage, NoToolUseResult, MaxCost),
     EventOf(eventResult, NoMessage, NoToolUseResult, MaxCost + 1)}

\* one line of the stream, by what the scanner and json.Unmarshal make of
\* it: empty, longer than the scanner's buffer, not the JSON of an Event,
\* the JSON null, or the JSON object of the event evt
LineOf(form, evt) == [form |-> form, evt |-> evt]

LineSamples ==
    {LineOf("blank", ZeroEvent), LineOf("toolong", ZeroEvent),
     LineOf("malformed", ZeroEvent), LineOf("null", ZeroEvent)}
    \cup {LineOf("object", e) : e \in EventSamples}

\* json.Unmarshal(line, &evt) on a non-empty line: .ok = FALSE is an error
Decode(line) ==
    IF line.form = "object" THEN [ok |-> TRUE, evt |-> line.evt]
    ELSE IF line.form = "null" THEN [ok |-> TRUE, evt |-> ZeroEvent]
    ELSE [ok |-> FALSE, evt |-> ZeroEvent]

----------------------------------------------------------------------------
(* Parser, per-iteration statistics and formatter *)

\* a Next that takes a line it cannot decode for the end of the stream
ParserNextStopsAtMalformed(lines, pos) ==
    LET ahead == {k \in pos + 1..Len(lines) : lines[k].form # "blank"}
    IN  IF ahead = {} THEN [kind |-> "eof", evt |-> ZeroEvent, pos |-> Len(lines)]
        ELSE LET k == CHOOSE n \in ahead : \A m \in ahead : n <= m
             IN  IF lines[k].form = "toolong"
                 THEN [kind |-> "error", evt |-> ZeroEvent, pos |-> k - 1]
                 ELSE IF ~Decode(lines[k]).ok
                 THEN [kind |-> "eof", evt |-> ZeroEvent, pos |-> k]
                 ELSE [kind |-> "event", evt |-> Decode(lines[k]).evt, pos |-> k]

\* a Next that skips a line longer than the buffer as it skips a line it
\* cannot decode
ParserNextSkipsTooLong(lines, pos) ==
    LET ahead == {k \in pos + 1..Len(lines) :
                    lines[k].form # "blank" /\ Decode(lines[k]).ok}
    IN  IF ahead = {} THEN [kind |-> "eof", evt |-> ZeroEvent, pos |-> Len(lines)]
        ELSE LET k == CHOOSE n \in ahead : \A m \in ahead : n <= m
             IN  [kind |-> "event", evt |-> Decode(lines[k]).evt, pos |-> k]

\* (p *Parser) Next() (*Event, error) with the scanner having consumed pos
\* lines: an event, io.EOF ("eof") or the scanner's error; .pos is what the
\* scanner has consumed after the call
RECURSIVE ParserNext(_, _)
ParserNext(lines, pos) ==
    IF pos >= Len(lines) THEN [kind |-> "eof", evt |-> ZeroEvent, pos |-> pos]
    ELSE LET line == lines[pos + 1]
         IN  IF line.form = "toolong"
             THEN [kind |-> "error", evt |-> ZeroEvent, pos |-> pos]
             ELSE IF line.form = "blank" THEN ParserNext(lines, pos + 1)
             ELSE IF ~Decode(line).ok THEN ParserNext(lines, pos + 1)
             ELSE [kind |-> "event", evt |-> Decode(line).evt, pos |-> pos + 1]

\* &IterationStats{}
ZeroIterStats ==
    [PeakContext |-> 0, Cost |-> 0, SubagentTokens |-> 0, ToolCalls |-> 0]

\* an ObserveAssistant that adds the contexts up
ObserveAssistantSum(s, u) ==
    IF ~u.present THEN s
    ELSE [s EXCEPT !.PeakContext = @ + u.InputTokens + u.CacheCreationInputTokens
                                     + u.CacheReadInputTokens]

\* (s *IterationStats) ObserveAssistant(u *Usage)
ObserveAssistant(s, u) ==
    IF ~u.present THEN s
    ELSE LET ctx == u.InputTokens + u.CacheCreationInputTokens + u.CacheReadInputTokens
         IN  IF ctx > s.PeakContext THEN [s EXCEPT !.PeakContext = ctx] ELSE s

\* (s *IterationStats) ObserveToolUse()
ObserveToolUse(s) == [s EXCEPT !.ToolCalls = @ + 1]

\* an ObserveSubagent that keeps the last count
ObserveSubagentLast(s, totalTokens) == [s EXCEPT !.SubagentTokens = totalTokens]

\* (s *IterationStats) ObserveSubagent(totalTokens int)
ObserveSubagent(s, totalTokens) == [s EXCEPT !.SubagentTokens = @ + totalTokens]

\* an ObserveResult that adds the costs up
ObserveResultSum(s, costUSD) == [s EXCEPT !.Cost = @ + costUSD]

\* (s *IterationStats) ObserveResult(costUSD float64)
ObserveResult(s, costUSD) == [s EXCEPT !.Cost = costUSD]

\* process.go lines 25-41: the switch of Process that folds evt into stats
Accumulate(s, evt) ==
    IF evt.Type = eventAssistant
    THEN IF evt.Message.present
         THEN LET blocks == evt.Message.Content
                  \* seen[k]: the stats after the first k blocks
                  seen[k \in 0..Len(blocks)] ==
                      IF k = 0 THEN ObserveAssistant(s, evt.Message.Usage)
                      ELSE IF blocks[k].Type = contentToolUse
                      THEN ObserveToolUse(seen[k - 1])
                      ELSE seen[k - 1]
              IN  seen[Len(blocks)]
         ELSE s
    ELSE IF evt.Type = eventUser
    THEN IF evt.ToolUseResult.present /\ evt.ToolUseResult.TotalTokens > 0
         THEN ObserveSubagent(s, evt.ToolUseResult.TotalTokens)
         ELSE s
    ELSE IF evt.Type = eventResult
    THEN ObserveResult(s, evt.TotalCostUSD)
    ELSE s

\* what a formatter function did: the lines it gave to w, in order, and
\* the error it returned when no write failed
Rendered(items, err) == [items |-> items, err |-> err]

\* (f *Formatter) formatTaskToolUse(block): json.Unmarshal of the Input
\* into a map fails unless it is a JSON object
formatTaskToolUse(block) ==
    IF block.Input # "object" THEN Rendered(<<>>, "parsing Task input")
    ELSE Rendered(<<"task">>, "nil")

\* (f *Formatter) formatToolUse(block)
formatToolUse(block) ==
    IF block.Name = "Task" THEN formatTaskToolUse(block)
    ELSE Rendered(<<"tool">>, "nil")

\* (f *Formatter) formatAssistant(evt)
formatAssistant(evt) ==
    IF ~evt.Message.present THEN Rendered(<<>>, "nil")
    ELSE LET blocks == evt.Message.Content
             \* from[k]: the loop from block k on
             from[k \in 1..Len(blocks) + 1] ==
                 IF k > Len(blocks) THEN Rendered(<<>>, "nil")
                 ELSE LET one == IF blocks[k].Type = "text"
                                 THEN Rendered(<<"text">>, "nil")
                                 ELSE IF blocks[k].Type = contentToolUse
                                 THEN formatToolUse(blocks[k])
                                 ELSE Rendered(<<>>, "nil")
                      IN  IF one.err # "nil" THEN one
                          ELSE Rendered(one.items \o from[k + 1].items,
                                        from[k + 1].err)
         IN  from[1]

\* (f *Formatter) formatUser(evt)
formatUser(evt) ==
    IF ~evt.ToolUseResult.present \/ evt.ToolUseResult.TotalTokens = 0
    THEN Rendered(<<>>, "nil")
    ELSE IF evt.ToolUseResult.Status = "completed"
    THEN Rendered(<<"subagent done">>, "nil")
    ELSE Rendered(<<"subagent failed">>, "nil")

\* a Format that also prints a line for the result event
FormatWithResult(evt) ==
    IF evt.Type = eventAssistant THEN formatAssistant(evt)
    ELSE IF evt.Type = eventUser THEN formatUser(evt)
    ELSE IF evt.Type = eventResult THEN Rendered(<<"cost">>, "nil")
    ELSE Rendered(<<>>, "nil")

\* (f *Formatter) Format(evt *Event) error
Format(evt) ==
    IF evt.Type = eventAssistant THEN formatAssistant(evt)
    ELSE IF evt.Type = eventUser THEN formatUser(evt)
    ELSE Rendered(<<>>, "nil")

\* Format on a sink whose failAt-th write fails (0: none does): what reaches
\* the sink and the error Format returns
FormatTo(evt, failAt) ==
    LET r == Format(evt)
    IN  IF failAt = 0 THEN r
        ELSE Rendered(SubSeq(r.items, 1, failAt - 1), "writing")

----------------------------------------------------------------------------
(* Run-record store *)

StatusCompleted == "completed"
StatusStaleAbort == "stale_abort"
StatusCancelled == "cancelled"
StatusMaxIterations == "max_iterations"

\* a record left in the state file by an earlier run
OldRecord ==
    [Iterations |-> 1, TotalCost |-> 1, PeakContext |-> 1,
     SubagentTokens |-> 0, Status |-> StatusCompleted]

\* json.MarshalIndent of one RunRecord: a JSON object keyed by the struct tags
\* with the peak context and the subagent tokens under each other's key
MarshalRecordSwapped(r) ==
    [iterations |-> r.Iterations, total_cost |-> r.TotalCost,
     peak_context |-> r.SubagentTokens, subagent_tokens |-> r.PeakContext,
     status |-> r.Status]

\* json.MarshalIndent of one RunRecord: a JSON object keyed by the struct tags
\* (the numbers are written in full and read back exactly)
MarshalRecord(r) ==
    [iterations |-> r.Iterations, total_cost |-> r.TotalCost,
     peak_context |-> r.PeakContext, subagent_tokens |-> r.SubagentTokens,
     status |-> r.Status]

\* json.MarshalIndent(s, "", "  ") of a State: the document {"runs": [...]}
Marshal(runs) ==
    [runs |-> [k \in 1..Len(runs) |-> MarshalRecord(runs[k])]]

\* json.Unmarshal of one object of "runs" into a RunRecord
UnmarshalRecord(o) ==
    [Iterations |-> o.iterations, TotalCost |-> o.total_cost,
     PeakContext |-> o.peak_context, SubagentTokens |-> o.subagent_tokens,
     Status |-> o.status]

\* json.Unmarshal(data, &s): the Runs of the State read from a document
Unmarshal(data) ==
    [k \in 1..Len(data.runs) |-> UnmarshalRecord(data.runs[k])]

\* the content of a file that is absent or does not parse
NoData == [runs |-> <<>>]

\* the state file as Run may find it: absent, holding a history, or unparsable
StoreStates ==
    {[kind |-> "missing", data |-> NoData], [kind |-> "corrupt", data |-> NoData],
     [kind |-> "valid", data |-> Marshal(<<>>)],
     [kind |-> "valid", data |-> Marshal(<<OldRecord>>)]}

\* a Load that takes a missing file for an error
LoadMissingIsError(st, readFails) ==
    IF readFails THEN [ok |-> FALSE, runs |-> <<>>]
    ELSE IF st.kind = "missing" THEN [ok |-> FALSE, runs |-> <<>>]
    ELSE IF st.kind = "corrupt" THEN [ok |-> FALSE, runs |-> <<>>]
    ELSE [ok |-> TRUE, runs |-> Unmarshal(st.data)]

\* state.Load(path): .ok = FALSE is the (nil, err) return.
\* readFails: os.ReadFile fails with something other than ErrNotExist
Load(st, readFails) ==
    IF readFails THEN [ok |-> FALSE, runs |-> <<>>]
    ELSE IF st.kind = "missing" THEN [ok |-> TRUE, runs |-> <<>>]
    ELSE IF st.kind = "corrupt" THEN [ok |-> FALSE, runs |-> <<>>]
    ELSE [ok |-> TRUE, runs |-> Unmarshal(st.data)]

\* what os.WriteFile can do: write all, fail before truncating, fail midway
WriteOutcomes == {"ok", "fail", "partial"}

\* state.Save(path, s): the file after the call
Save(st, runs, write) ==
    IF write = "ok" THEN [kind |-> "valid", data |-> Marshal(runs)]
    ELSE IF write = "partial" THEN [kind |-> "corrupt", data |-> NoData]
    ELSE st

\* a switch without the case of the exhausted budget
RunStatusNoBudget(o, c, canc, staleAb) ==
    IF staleAb THEN StatusStaleAbort
    ELSE IF canc THEN StatusCancelled
    ELSE StatusCompleted

\* the switch of saveState that picks the record's status
RunStatus(o, c, canc, staleAb) ==
    IF staleAb THEN StatusStaleAbort
    ELSE IF canc THEN StatusCancelled
    ELSE IF o.MaxIterations > 0 /\ c.Iterations >= o.MaxIterations
         THEN StatusMaxIterations
    ELSE StatusCompleted

\* the RunRecord saveState builds (Mode, the timestamps and the log paths are
\* copied through and not modelled)
BuildRecord(o, c, canc, staleAb) ==
    [Iterations |-> c.Iterations, TotalCost |-> c.TotalCost,
     PeakContext |-> c.PeakContext, SubagentTokens |-> c.SubagentTokens,
     Status |-> RunStatus(o, c, canc, staleAb)]

\* a saveState that writes the new record alone instead of appending it
saveStateOverwrite(o, c, canc, staleAb, st, readFails, write) ==
    IF o.StateFile = "" THEN st
    ELSE Save(st, <<BuildRecord(o, c, canc, staleAb)>>, write)

\* saveState(opts, cumStats, startTime, logPaths, cancelled, staleAborted):
\* the state file after the call
saveState(o, c, canc, staleAb, st, readFails, write) ==
    IF o.StateFile = "" THEN st
    ELSE LET loaded == Load(st, readFails)
             runs   == IF loaded.ok THEN loaded.runs ELSE <<>>
         IN  Save(st, Append(runs, BuildRecord(o, c, canc, staleAb)), write)

----------------------------------------------------------------------------
(* Run: values *)

\* Options as Run's control flow reads them; StateFile "" means no state file
OptionsDomain ==
    [MaxIterations : 0..MaxBudget, StateFile : {"", ".ralph/state.json"}]

\* the error Run returns; err "pending" while Run has not returned.
\* cause is the error wrapped with %w, which errors.Is sees through
Pending == [err |-> "pending", cause |-> ""]
NilError == [err |-> "nil", cause |-> ""]
CtxCanceled == [err |-> "context canceled", cause |-> "context canceled"]
Wrap(msg, cause) == [err |-> msg, cause |-> cause]

\* errors.Is(err, context.Canceled)
IsCanceled(e) == e.cause = "context canceled"

\* how one run of the claude subprocess can go, cancellation aside
ClaudeOutcomes == {"ok", "prompt", "pipe", "start", "process", "wait"}

NoStats == [PeakContext |-> -1, Cost |-> -1, SubagentTokens |-> -1]

\* runClaude(ctx, opts, logW, displayW) (*stream.IterationStats, error):
\* how is what the subprocess and the stream did, stats what stream.Process
\* had folded, ctxDone whether ctx.Err() != nil after cmd.Wait
runClaude(how, stats, ctxDone) ==
    IF how = "prompt" THEN [stats |-> NoStats, err |-> "reading prompt file"]
    ELSE IF how = "pipe" THEN [stats |-> NoStats, err |-> "creating stdout pipe"]
    ELSE IF how = "start" THEN [stats |-> NoStats, err |-> "starting claude"]
    ELSE IF ctxDone THEN [stats |-> stats, err |-> "context canceled"]
    ELSE IF how = "process" THEN [stats |-> stats, err |-> "processing stream"]
    ELSE IF how = "wait" THEN [stats |-> stats, err |-> "claude exited"]
    ELSE [stats |-> stats, err |-> "nil"]

\* the transport errors of runClaude
TransportErrors == {"processing stream", "claude exited"}

\* a budget check that is off by one
BudgetExhaustedEarly(o, n) == o.MaxIterations > 0 /\ n >= o.MaxIterations

\* line 320: the iteration budget is configured and index n exceeds it
BudgetExhausted(o, n) == o.MaxIterations > 0 /\ n > o.MaxIterations

\* a boundary that looks at the cancellation before the budget
BoundaryDecisionCancelFirst(o, n, ctxDone) ==
    IF ctxDone THEN "cancelled"
    ELSE IF BudgetExhausted(o, n) THEN "max"
    ELSE "run"

\* lines 319-328: what the top of the loop body decides for index n
BoundaryDecision(o, n, ctxDone) ==
    IF BudgetExhausted(o, n) THEN "max"
    ELSE IF ctxDone THEN "cancelled"
    ELSE "run"

\* a Run that swallows the cancellation
ReturnValueNil(staleAb, canc) == NilError

\* lines 385-391: what Run returns after saveState
ReturnValue(staleAb, canc) ==
    IF staleAb THEN NilError
    ELSE IF canc THEN CtxCanceled
    ELSE NilError

\* obs before Run starts; pre: ctx was cancelled before the call,
\* st0: the state file before the call
InitObs(pre, st0) ==
    [called      |-> 0,        \* runClaude calls
     completed   |-> 0,        \* runClaude calls that returned a nil error
     dipped      |-> FALSE,    \* an Update got a peak below the accumulator's
     rendered    |-> 0,        \* RenderIterationSummary calls
     pushes      |-> 0,        \* git.Push calls
     pushFailed  |-> FALSE,    \* this iteration's git.Push failed
     upstreamNow |-> 0,        \* this iteration's PushSetUpstream calls
     bothFailed  |-> FALSE,    \* the last publish failed twice
     firstHead   |-> "",       \* the first revision git.Head returned
     stable      |-> TRUE,     \* every git.Head so far returned firstHead
     moving      |-> TRUE,     \* every iteration so far changed the revision
     staleRun    |-> 0,        \* the latest iterations in a row that left the
                               \* revision as it was, counted up to MaxStale
     midCancel   |-> FALSE,    \* ctx was cancelled while runClaude ran
     partial     |-> NoStats,  \* stats runClaude returned with ctx.Err()
     transport   |-> FALSE,    \* runClaude returned a transport error
     preCancel   |-> pre,
     boundary    |-> "none",   \* what the last iteration boundary decided
     summarised  |-> FALSE,    \* summary.PrintBox was called
     summary     |-> ZeroCumStats, \* the CumulativeStats it was given
     loadOk      |-> FALSE,    \* at exit the state file could be loaded
     writeOk     |-> FALSE,    \* at exit the state file could be written
     store0      |-> st0]

----------------------------------------------------------------------------
(* Run: steps *)

\* a Run that gives up on cancellation only and carries on after other errors
ClaudeFatalCancelOnly(r) == r.err = "context canceled"

\* line 346: runErr != nil ends Run with an error
ClaudeFatal(r) == r.err # "nil"

\* a Run that does not fold when runClaude returns
FoldStatsDeferred(c, r) == c

\* a fold that leaves out the iterations whose stream carried no usage
FoldStatsSkipEmpty(c, r) ==
    IF r.stats # NoStats /\ r.stats.PeakContext > 0 THEN Update(c, r.stats) ELSE c

\* lines 350-353: fold the iteration's stats when runClaude returned some
FoldStats(c, r) == IF r.stats # NoStats THEN Update(c, r.stats) ELSE c

\* line 352: the per-iteration summary is rendered with the fold
SummariesAfter(n, r) == IF r.stats # NoStats THEN n + 1 ELSE n

\* a publish that ends Run when the fallback fails too
PushFatalOnDoubleFailure(pushOk, upOk) ==
    [upstream |-> IF pushOk THEN 0 ELSE 1,
     logged   |-> ~pushOk /\ ~upOk,
     fatal    |-> ~pushOk /\ ~upOk]

\* lines 355-361: git.Push, then git.PushSetUpstream if it failed.
\* upstream: PushSetUpstream calls made; fatal: the publish ends Run
PushWithFallback(pushOk, upOk) ==
    [upstream |-> IF pushOk THEN 0 ELSE 1,
     logged   |-> ~pushOk /\ ~upOk,
     fatal    |-> FALSE]

\* a stale check that ends the loop whenever the detector says abort
StaleStepAnyAbort(d, before, after) ==
    LET r == Check(d, after)
    IN  [d |-> r.d, abort |-> r.abort]

\* lines 369-379: feed headAfter to the detector; .abort ends the loop
StaleStep(d, before, after) ==
    LET r == Check(d, after)
    IN  IF before = after
        THEN [d |-> r.d, abort |-> r.abort]
        ELSE [d |-> r.d, abort |-> FALSE]

Fail(msg, cause) ==
    /\ pc' = "done"
    /\ result' = Wrap(msg, cause)

\* lines 300-318: header, initial HEAD, seed the detector
Start ==
    /\ pc = "start"
    /\ \/ /\ Fail("getting initial HEAD", "git")
          /\ UNCHANGED <<i, stale, cumStats, obs>>
       \/ \E head \in Revisions :
            /\ stale' = Check(NewStaleDetector(DefaultMaxStale), head).d
            /\ cumStats' = ZeroCumStats
            /\ i' = 1
            /\ pc' = "top"
            /\ obs' = [obs EXCEPT !.firstHead = head]
            /\ UNCHANGED result
    /\ UNCHANGED <<opts, ctxErr, headBefore, cancelled, staleAborted, store>>
    /\ UNCHANGED outsideLoop

\* lines 319-342: the iteration boundary, up to the call of runClaude
Boundary ==
    /\ pc = "top"
    /\ IF BoundaryDecision(opts, i, ctxErr) = "max"
       THEN /\ pc' = "exit"
            /\ obs' = [obs EXCEPT !.boundary = "max"]
            /\ UNCHANGED <<cancelled, headBefore, result>>
       ELSE IF BoundaryDecision(opts, i, ctxErr) = "cancelled"
       THEN /\ cancelled' = TRUE
            /\ pc' = "exit"
            /\ obs' = [obs EXCEPT !.boundary = "cancelled"]
            /\ UNCHANGED <<headBefore, result>>
       ELSE /\ i <= MaxRun
            /\ \/ /\ Fail("getting HEAD before iteration", "git")
                  /\ UNCHANGED <<headBefore, obs>>
               \/ \E head \in Revisions :
                    /\ headBefore' = head
                    /\ \/ /\ Fail("creating log writer", "os")
                          /\ obs' = [obs EXCEPT !.boundary = "run",
                                                !.stable = @ /\ head = obs.firstHead]
                       \/ /\ pc' = "claude"
                          /\ obs' = [obs EXCEPT !.boundary = "run",
                                                !.stable = @ /\ head = obs.firstHead,
                                                !.called = @ + 1]
                          /\ UNCHANGED result
            /\ UNCHANGED cancelled
    /\ UNCHANGED <<opts, ctxErr, i, stale, cumStats, staleAborted, store>>
    /\ UNCHANGED outsideLoop

\* lines 342-353: runClaude returns
ClaudeReturns ==
    /\ pc = "claude"
    /\ \E how \in ClaudeOutcomes, stats \in IterStatsDomain :
         LET r == runClaude(how, stats, ctxErr)
         IN  /\ obs' = [obs EXCEPT
                          !.completed = IF r.err = "nil" THEN @ + 1 ELSE @,
                          !.rendered = IF ClaudeFatal(r) THEN @ ELSE SummariesAfter(@, r),
                          !.dipped = @ \/ (/\ ~ClaudeFatal(r)
                                           /\ r.stats.PeakContext < cumStats.PeakContext),
                          !.partial = IF r.err = "context canceled" THEN r.stats ELSE @,
                          !.transport = r.err \in TransportErrors]
             /\ IF ClaudeFatal(r)
                THEN /\ Fail("running claude", r.err)
                     /\ UNCHANGED cumStats
                ELSE /\ cumStats' = FoldStats(cumStats, r)
                     /\ pc' = "push"
                     /\ UNCHANGED result
    /\ UNCHANGED <<opts, ctxErr, i, stale, headBefore, cancelled, staleAborted, store>>
    /\ UNCHANGED outsideLoop

\* lines 355-361: publish
Publish ==
    /\ pc = "push"
    /\ \E pushOk \in BOOLEAN, upOk \in BOOLEAN :
         LET p == PushWithFallback(pushOk, upOk)
         IN  /\ obs' = [obs EXCEPT !.pushes = @ + 1,
                                   !.pushFailed = ~pushOk,
                                   !.upstreamNow = p.upstream,
                                   !.bothFailed = ~pushOk /\ ~upOk]
             /\ IF p.fatal
                THEN Fail("pushing", "git")
                ELSE pc' = "check" /\ UNCHANGED result
    /\ UNCHANGED <<opts, ctxErr, i, stale, cumStats, headBefore, cancelled,
                   staleAborted, store>>
    /\ UNCHANGED outsideLoop

\* lines 363-380: HEAD after the iteration, stale check, i++
StaleCheck ==
    /\ pc = "check"
    /\ \/ /\ Fail("getting HEAD after iteration", "git")
          /\ UNCHANGED <<i, stale, staleAborted, obs>>
       \/ \E head \in Revisions :
            LET s == StaleStep(stale, headBefore, head)
            IN  /\ stale' = s.d
                /\ obs' = [obs EXCEPT !.stable = @ /\ head = obs.firstHead,
                                      !.moving = @ /\ head # headBefore,
                                      !.staleRun = IF head # headBefore THEN 0
                                                   ELSE IF @ < MaxStale(stale) THEN @ + 1
                                                   ELSE @,
                                      !.pushFailed = FALSE,
                                      !.upstreamNow = 0]
                /\ UNCHANGED result
                /\ IF s.abort
                   THEN staleAborted' = TRUE /\ pc' = "exit" /\ UNCHANGED i
                   ELSE i' = i + 1 /\ pc' = "top" /\ UNCHANGED staleAborted
    /\ UNCHANGED <<opts, ctxErr, cumStats, headBefore, cancelled, store>>
    /\ UNCHANGED outsideLoop

\* lines 382-392: final summary, saveState, return
Finish ==
    /\ pc = "exit"
    /\ \E readFails \in BOOLEAN, write \in WriteOutcomes :
         /\ store' = saveState(opts, cumStats, cancelled, staleAborted, store,
                               readFails, write)
         /\ obs' = [obs EXCEPT
                      !.summarised = TRUE,
                      !.summary = cumStats,
                      !.loadOk = Load(store, readFails).ok,
                      !.writeOk = write = "ok"]
    /\ result' = ReturnValue(staleAborted, cancelled)
    /\ pc' = "done"
    /\ UNCHANGED <<opts, ctxErr, i, stale, cumStats, headBefore, cancelled,
                   staleAborted>>
    /\ UNCHANGED outsideLoop

\* the context is cancelled (os.Interrupt) while Run runs
Cancel ==
    /\ pc # "done"
    /\ ~ctxErr
    /\ ctxErr' = TRUE
    /\ obs' = [obs EXCEPT !.midCancel = @ \/ pc = "claude"]
    /\ UNCHANGED <<pc, opts, i, stale, cumStats, headBefore, cancelled,
                   staleAborted, store, result>>
    /\ UNCHANGED outsideLoop

----------------------------------------------------------------------------
(* Iteration logs: values *)

\* ticks of the clock in one second: the resolution "20060102-150405" drops
TicksPerSecond == 2

\* time.Now().Format("20060102-150405") + ".jsonl": one name per second
LogName(t) == t \div TicksPerSecond

\* the names a log file can get while the clock is followed
LogNames == {LogName(t) : t \in 0..MaxClock}

\* a name of the logs directory under which no file exists
NoFile == [exists |-> FALSE, content |-> <<>>]

\* no writer is open
NoWriter == [open |-> FALSE, path |-> 0, err |-> FALSE]

\* no run is writing logs
IdleLogs ==
    /\ clock = 0
    /\ logFiles = [name \in LogNames |-> NoFile]
    /\ logW = NoWriter
    /\ logPaths = <<>>
    /\ consumed = <<>>
    /\ logPc = "idle"

----------------------------------------------------------------------------
(* FormatTokens *)

\* a FormatTokens that rounds to the nearest tenth
FormatTokensRounded(n) ==
    IF n >= 1000000
    THEN LET whole == (n + 50000) \div 100000
         IN  ToString(whole \div 10) \o "." \o ToString(whole % 10) \o "M"
    ELSE IF n >= 1000
    THEN LET whole == (n + 50) \div 100
         IN  ToString(whole \div 10) \o "." \o ToString(whole % 10) \o "k"
    ELSE ToString(n)

\* FormatTokens(n): fmt.Sprintf of "%d.%dM", "%d.%dk" or "%d"
FormatTokens(n) ==
    IF n >= 1000000
    THEN LET whole == n \div 100000
         IN  ToString(whole \div 10) \o "." \o ToString(whole % 10) \o "M"
    ELSE IF n >= 1000
    THEN LET whole == n \div 100
         IN  ToString(whole \div 10) \o "." \o ToString(whole % 10) \o "k"
    ELSE ToString(n)

\* FormatTokens is not being called
IdleTokens == tokenCount = 0 /\ tokenText = ""

IdleDetector ==
    /\ cfg = 0
    /\ det = NewStaleDetector(0)
    /\ ref = NewStaleDetector(0)
    /\ calls = <<>>

IdleStats == acc = ZeroCumStats /\ folded = <<>>

\* no Save has been made
NoSave ==
    [called |-> FALSE, before |-> [kind |-> "missing", data |-> NoData],
     history |-> <<>>, write |-> "fail"]

\* no Load has been made
NoLoad ==
    [called |-> FALSE, before |-> [kind |-> "missing", data |-> NoData],
     readFails |-> FALSE, ok |-> FALSE, runs |-> <<>>]

IdleStore ==
    /\ file = [kind |-> "missing", data |-> NoData]
    /\ lastLoad = NoLoad
    /\ lastSave = NoSave

\* Process has not returned
NoReturn == [done |-> FALSE, stats |-> ZeroIterStats, err |-> "nil"]

\* a Process that returns no stats with an error
ProcessReturnNilOnError(s, err) ==
    [done |-> TRUE, stats |-> IF err = "nil" THEN s ELSE ZeroIterStats, err |-> err]

\* process.go lines 21, 44 and 49: return stats, err
ProcessReturn(s, err) == [done |-> TRUE, stats |-> s, err |-> err]

\* Process is not running
IdleStream ==
    /\ input = <<>>
    /\ scanned = 0
    /\ events = <<>>
    /\ procStats = ZeroIterStats
    /\ sink = <<>>
    /\ procErr = "idle"
    /\ procRet = NoReturn

\* Run is not running
IdleLoop ==
    /\ pc = "idle"
    /\ opts = [MaxIterations |-> 0, StateFile |-> ""]
    /\ ctxErr = FALSE
    /\ i = 0
    /\ stale = NewStaleDetector(DefaultMaxStale)
    /\ cumStats = ZeroCumStats
    /\ headBefore = ""
    /\ cancelled = FALSE
    /\ staleAborted = FALSE
    /\ store = [kind |-> "missing", data |-> NoData]
    /\ result = Pending
    /\ obs = InitObs(FALSE, store)

Init ==
    /\ pc = "start"
    /\ opts \in OptionsDomain
    /\ ctxErr \in BOOLEAN
    /\ i = 0
    /\ stale = NewStaleDetector(DefaultMaxStale)
    /\ cumStats = ZeroCumStats
    /\ headBefore = ""
    /\ cancelled = FALSE
    /\ staleAborted = FALSE
    /\ store \in StoreStates
    /\ opts.StateFile = "" => store.kind = "missing"
    /\ result = Pending
    /\ obs = InitObs(ctxErr, store)
    /\ IdleDetector
    /\ IdleStats
    /\ IdleStream
    /\ IdleStore
    /\ IdleTokens
    /\ IdleLogs

Next ==
    \/ Start
    \/ Boundary
    \/ ClaudeReturns
    \/ Publish
    \/ StaleCheck
    \/ Finish
    \/ Cancel

Spec == Init /\ [][Next]_vars

----------------------------------------------------------------------------
(* The StaleDetector alone *)

\* one Check call on det, logged with the detector it was made on
CheckCall ==
    /\ Len(calls) < MaxChecks
    /\ \E head \in RevisionStrings :
         LET r == Check(det, head)
             q == Check(ref, head)
         IN  /\ det' = r.d
             /\ ref' = q.d
             /\ calls' = Append(calls, [head |-> head, abort |-> r.abort,
                                        staleCount |-> r.staleCount,
                                        before |-> det, after |-> r.d,
                                        refAbort |-> q.abort,
                                        refCount |-> q.staleCount])
    /\ UNCHANGED cfg
    /\ UNCHANGED outsideDet

InitDetector ==
    /\ cfg \in -1..MaxThreshold
    /\ det = NewStaleDetector(cfg)
    /\ ref = NewStaleDetector(2)
    /\ calls = <<>>
    /\ IdleLoop
    /\ IdleStats
    /\ IdleStream
    /\ IdleStore
    /\ IdleTokens
    /\ IdleLogs

NextDetector == CheckCall

SpecDetector == InitDetector /\ [][NextDetector]_vars

----------------------------------------------------------------------------
(* CumulativeStats alone *)

\* IterationStats handed to Update: those of IterStatsDomain and the two
\* iterations of the aggregation example (peaks 100 and 50, sub-agent tokens
\* 10 and 20, costs 1.0 and 2.5 in tenths)
FoldSamples ==
    IterStatsDomain \cup
    {[PeakContext |-> 100, Cost |-> 10, SubagentTokens |-> 10],
     [PeakContext |-> 50, Cost |-> 25, SubagentTokens |-> 20]}

\* one Update call on acc
UpdateCall ==
    /\ Len(folded) < MaxFolds
    /\ \E iter \in FoldSamples :
         /\ acc' = Update(acc, iter)
         /\ folded' = Append(folded, iter)
    /\ UNCHANGED outsideStats

InitStats ==
    /\ IdleStats
    /\ IdleLoop
    /\ IdleDetector
    /\ IdleStream
    /\ IdleStore
    /\ IdleTokens
    /\ IdleLogs

NextStats == UpdateCall

SpecStats == InitStats /\ [][NextStats]_vars

----------------------------------------------------------------------------
(* stream.Process alone *)

\* the streams tried: up to MaxLines sample lines
Streams == UNION {[1..n -> LineSamples] : n \in 0..MaxLines}

\* the error parser.Next wraps: "scanning stream: %w"
ScanErrors == {"scanning stream: token too long", "scanning stream: read"}

\* process.go lines 16-46: Next returns an event; fold it, then format it
ProcessEvent ==
    /\ procErr = "running"
    /\ LET n == ParserNext(input, scanned)
       IN  /\ n.kind = "event"
           /\ scanned' = n.pos
           /\ events' = Append(events, n.evt)
           /\ procStats' = Accumulate(procStats, n.evt)
           /\ \E failAt \in 0..Len(Format(n.evt).items) :
                LET r == FormatTo(n.evt, failAt)
                IN  /\ sink' = sink \o r.items
                    /\ procErr' = IF r.err = "nil" THEN "running" ELSE r.err
                    /\ procRet' = IF r.err = "nil" THEN procRet
                                  ELSE ProcessReturn(Accumulate(procStats, n.evt), r.err)
    /\ UNCHANGED input
    /\ UNCHANGED outsideStream

\* process.go lines 17-19 and 49: Next returns io.EOF; Process returns
ProcessEOF ==
    /\ procErr = "running"
    /\ LET n == ParserNext(input, scanned)
       IN  /\ n.kind = "eof"
           /\ scanned' = n.pos
           /\ procErr' = "nil"
           /\ procRet' = ProcessReturn(procStats, "nil")
    /\ UNCHANGED <<input, events, procStats, sink>>
    /\ UNCHANGED outsideStream

\* process.go lines 20-22: Next returns the scanner's error for a line
\* longer than its buffer
ProcessTooLong ==
    /\ procErr = "running"
    /\ LET n == ParserNext(input, scanned)
       IN  /\ n.kind = "error"
           /\ scanned' = n.pos
           /\ procErr' = "scanning stream: token too long"
           /\ procRet' = ProcessReturn(procStats, "scanning stream: token too long")
    /\ UNCHANGED <<input, events, procStats, sink>>
    /\ UNCHANGED outsideStream

\* process.go lines 20-22: the reader fails before the next event is read
ProcessReadError ==
    /\ procErr = "running"
    /\ procErr' = "scanning stream: read"
    /\ procRet' = ProcessReturn(procStats, "scanning stream: read")
    /\ UNCHANGED <<input, scanned, events, procStats, sink>>
    /\ UNCHANGED outsideStream

InitStream ==
    /\ input \in Streams
    /\ scanned = 0
    /\ events = <<>>
    /\ procStats = ZeroIterStats
    /\ sink = <<>>
    /\ procErr = "running"
    /\ procRet = NoReturn
    /\ IdleLoop
    /\ IdleDetector
    /\ IdleStats
    /\ IdleStore
    /\ IdleTokens
    /\ IdleLogs

NextStream ==
    \/ ProcessEvent
    \/ ProcessEOF
    \/ ProcessTooLong
    \/ ProcessReadError

SpecStream == InitStream /\ [][NextStream]_vars

----------------------------------------------------------------------------
(* The run-record store alone *)

\* a record of a run that was aborted
AbortedRecord ==
    [Iterations |-> 2, TotalCost |-> 0, PeakContext |-> MaxTokens,
     SubagentTokens |-> MaxTokens, Status |-> StatusStaleAbort]

\* the histories handed to Save: up to MaxHistory records
Histories ==
    UNION {[1..n -> {OldRecord, AbortedRecord}] : n \in 0..MaxHistory}

\* one state.Load(path) call
LoadCall ==
    /\ \E readFails \in BOOLEAN :
         LET r == Load(file, readFails)
         IN  lastLoad' = [called |-> TRUE, before |-> file, readFails |-> readFails,
                          ok |-> r.ok, runs |-> r.runs]
    /\ UNCHANGED <<file, lastSave>>
    /\ UNCHANGED outsideStore

\* one state.Save(path, s) call
SaveCall ==
    /\ \E history \in Histories, write \in WriteOutcomes :
         /\ file' = Save(file, history, write)
         /\ lastSave' = [called |-> TRUE, before |-> file, history |-> history,
                          write |-> write]
    /\ lastLoad' = NoLoad
    /\ UNCHANGED outsideStore

InitStore ==
    /\ file \in StoreStates
    /\ lastLoad = NoLoad
    /\ lastSave = NoSave
    /\ IdleLoop
    /\ IdleDetector
    /\ IdleStats
    /\ IdleStream
    /\ IdleLogs
    /\ IdleTokens

NextStore ==
    \/ LoadCall
    \/ SaveCall

SpecStore == InitStore /\ [][NextStore]_vars

----------------------------------------------------------------------------
(* The parser on longer streams *)

\* the lines tried: every kind of line, with two events the formatter does
\* not render, so that Process calls Next until the stream ends
ParserLineSamples ==
    {LineOf("blank", ZeroEvent), LineOf("toolong", ZeroEvent),
     LineOf("malformed", ZeroEvent), LineOf("null", ZeroEvent),
     LineOf("object", EventOf("system", NoMessage, NoToolUseResult, 0)),
     LineOf("object", EventOf(eventResult, NoMessage, NoToolUseResult, MaxCost))}

ParserStreams == UNION {[1..n -> ParserLineSamples] : n \in 0..MaxParsed}

InitParser ==
    /\ input \in ParserStreams
    /\ scanned = 0
    /\ events = <<>>
    /\ procStats = ZeroIterStats
    /\ sink = <<>>
    /\ procErr = "running"
    /\ procRet = NoReturn
    /\ IdleLoop
    /\ IdleDetector
    /\ IdleStats
    /\ IdleStore
    /\ IdleTokens
    /\ IdleLogs

SpecParser == InitParser /\ [][NextStream]_vars

----------------------------------------------------------------------------
(* Properties of Run *)

\* the errors Run returns when a collaborator fails
EnvFaults ==
    {"getting initial HEAD", "getting HEAD before iteration", "creating log writer",
     "running claude", "getting HEAD after iteration"}

\* Run returned, no collaborator failed and nobody cancelled
QuietRun == pc = "done" /\ ~ctxErr /\ result.err \notin EnvFaults

\* a state file is configured and this run could write it
Writable == opts.StateFile # "" /\ obs.writeOk

\* the history a state file holds, as a Load that can read it returns it
Stored(st) == Unmarshal(st.data)

\* the last record of the state file has the given status
LastStatus(status) ==
    /\ store.kind = "valid"
    /\ Len(Stored(store)) >= 1
    /\ Stored(store)[Len(Stored(store))].Status = status

\* C1: a run whose git.Head always returns the same revision, with no budget
\* or a budget above the stale threshold, no failing collaborator and no
\* cancellation, calls runClaude exactly MaxStale() = 2 times, returns nil
\* and, where it can write the state file, leaves a last record with status
\* stale_abort.
C1_StaleAbortAfterMaxStale ==
    (/\ QuietRun
     /\ obs.stable
     /\ (opts.MaxIterations = 0 \/ opts.MaxIterations > MaxStale(stale)))
    => /\ obs.called = MaxStale(stale)
       /\ MaxStale(stale) = DefaultMaxStale
       /\ staleAborted
       /\ result = NilError
       /\ Writable => LastStatus(StatusStaleAbort)

C1_Witness ==
    /\ QuietRun /\ obs.stable /\ opts.MaxIterations = 0
    /\ obs.called = 2 /\ staleAborted /\ result = NilError
    /\ Writable /\ LastStatus(StatusStaleAbort)

\* C2: a run with budget N > 0 in which every iteration changes the revision,
\* with no failing collaborator and no cancellation, calls runClaude exactly
\* N times, stops at the boundary of iteration N+1, returns nil and, where
\* it can write the state file, leaves a last record with status
\* max_iterations and Iterations = N.
C2_BudgetExhaustedAfterN ==
    (QuietRun /\ obs.moving /\ opts.MaxIterations > 0)
    => /\ obs.called = opts.MaxIterations
       /\ obs.boundary = "max"
       /\ i = opts.MaxIterations + 1
       /\ result = NilError
       /\ Writable => /\ LastStatus(StatusMaxIterations)
                      /\ Stored(store)[Len(Stored(store))].Iterations = opts.MaxIterations

C2_Witness ==
    /\ QuietRun /\ obs.moving /\ opts.MaxIterations = 2
    /\ obs.called = 2 /\ result = NilError
    /\ Writable /\ LastStatus(StatusMaxIterations)

\* C3: at an iteration boundary with budget left and the context cancelled,
\* Run leaves the loop with cancelled set and without calling runClaude; a
\* run that left the loop this way returns an error that Is context.Canceled
\* and, where it can write the state file, leaves a last record with status
\* cancelled; a run whose context was cancelled before the call never calls
\* runClaude.
C3_CancelAtBoundary ==
    /\ [][(pc = "top" /\ ctxErr /\ ~BudgetExhausted(opts, i))
            => (pc' = "exit" /\ cancelled' /\ obs'.called = obs.called)]_vars
    /\ [](pc = "done" /\ cancelled
            => /\ IsCanceled(result)
               /\ obs.summarised
               /\ Writable => LastStatus(StatusCancelled))
    /\ [](obs.preCancel => obs.called = 0)

C3_Witness ==
    /\ pc = "done" /\ cancelled /\ obs.preCancel /\ obs.called = 0
    /\ IsCanceled(result) /\ Writable /\ LastStatus(StatusCancelled)

\* Run left the loop by a break: the final summary was printed and saveState
\* called
TerminalRun == pc = "done" /\ obs.summarised

\* C4 as stated: every run that reaches a terminal state leaves exactly one
\* more record in the stored history, whatever the options (the store itself
\* loading and saving without error).
C4_AlwaysOneMoreRecord ==
    (TerminalRun /\ obs.loadOk /\ obs.writeOk)
    => /\ store.kind = "valid"
       /\ Len(Stored(store)) = Len(Stored(obs.store0)) + 1

\* C4 amended: a run that reaches a terminal state with a state file
\* configured, whose load and save succeed, leaves the earlier history
\* followed by exactly one new record; with no state file configured it
\* leaves the store as it was.
C4_OneMoreRecordIfConfigured ==
    TerminalRun
    => /\ (opts.StateFile # "" /\ obs.loadOk /\ obs.writeOk)
            => /\ store.kind = "valid"
               /\ Len(Stored(store)) = Len(Stored(obs.store0)) + 1
               /\ SubSeq(Stored(store), 1, Len(Stored(obs.store0))) = Stored(obs.store0)
               /\ Stored(store)[Len(Stored(store))] =
                     BuildRecord(opts, cumStats, cancelled, staleAborted)
       /\ opts.StateFile = "" => store = obs.store0

C4_Witness ==
    /\ TerminalRun /\ opts.StateFile # "" /\ obs.loadOk /\ obs.writeOk
    /\ Len(Stored(obs.store0)) = 1 /\ Len(Stored(store)) = 2
    /\ staleAborted

\* C5 as stated: when the context is cancelled while runClaude runs and
\* runClaude hands back the stats collected so far, Run folds them into the
\* CumulativeStats of the final summary and, where it can write the state
\* file, leaves a last record with status cancelled that counts them.
C5_PartialStatsKept ==
    (pc = "done" /\ obs.midCancel /\ obs.partial # NoStats)
    => /\ obs.summarised
       /\ obs.summary = cumStats
       /\ cumStats.Iterations = obs.called
       /\ cumStats.PeakContext >= obs.partial.PeakContext
       /\ Writable => /\ LastStatus(StatusCancelled)
                      /\ Stored(store)[Len(Stored(store))].Iterations = obs.called

\* C6: once runClaude has returned a transport error (the stream failed or
\* claude exited non-zero, the context not cancelled) Run has returned an
\* error wrapping it: the failed call is the last runClaude call, nothing
\* was published for its iteration, no summary was printed and the state
\* file is as it was before the run.
C6_TransportErrorIsFatal ==
    obs.transport
    => /\ pc = "done"
       /\ result.err = "running claude"
       /\ result.cause \in TransportErrors
       /\ ~IsCanceled(result)
       /\ cumStats.Iterations = obs.called - 1
       /\ obs.pushes = obs.called - 1
       /\ ~obs.summarised
       /\ store = obs.store0

C6_Witness ==
    /\ obs.transport /\ pc = "done" /\ obs.called = 2 /\ obs.pushes = 1
    /\ result = Wrap("running claude", "claude exited")
    /\ opts.StateFile # "" /\ store = obs.store0

\* C7: the publish step of an iteration calls PushSetUpstream once if
\* git.Push failed and not at all otherwise, and always goes on to the stale
\* check with Run still running and everything but the position unchanged;
\* Run never returns an error for a publish.
C7_PublishFallback ==
    /\ [][(pc = "push" /\ pc' # "push")
            => /\ pc' = "check"
               /\ result' = Pending
               /\ obs'.pushes = obs.pushes + 1
               /\ obs'.upstreamNow = (IF obs'.pushFailed THEN 1 ELSE 0)
               /\ UNCHANGED <<i, stale, cumStats, headBefore, cancelled,
                              staleAborted, store, ctxErr>>]_vars
    /\ [](result.err \in EnvFaults \cup {"pending", "nil", "context canceled"})

C7_Witness ==
    /\ pc = "top" /\ i = 2 /\ obs.bothFailed /\ obs.pushes = 1
    /\ result = Pending

\* C13: no step of a run lowers a field of the run's CumulativeStats:
\* Iterations, PeakContext, SubagentTokens and TotalCost after the step are
\* each at least what they were before it.
C13_CumStatsNeverDecrease ==
    [][/\ cumStats'.Iterations >= cumStats.Iterations
       /\ cumStats'.PeakContext >= cumStats.PeakContext
       /\ cumStats'.SubagentTokens >= cumStats.SubagentTokens
       /\ cumStats'.TotalCost >= cumStats.TotalCost]_vars

C13_Witness ==
    /\ obs.dipped /\ cumStats.Iterations = 2
    /\ cumStats.PeakContext = MaxTokens + 1
    /\ cumStats.SubagentTokens = MaxTokens

\* C14: the Iterations of the run's CumulativeStats is at every moment the
\* number of runClaude calls that have returned without error, so it is at
\* loop exit, in the CumulativeStats given to the final summary and, where
\* the run can write the state file, in the record it leaves.
C14_OneFoldPerCompletedIteration ==
    /\ cumStats.Iterations = obs.completed
    /\ TerminalRun
         => /\ obs.summary.Iterations = obs.completed
            /\ Writable => /\ store.kind = "valid"
                           /\ Stored(store)[Len(Stored(store))].Iterations = obs.completed

C14_Witness ==
    /\ TerminalRun /\ Writable /\ obs.completed = 2 /\ obs.called = 2
    /\ cumStats.PeakContext = 0
    /\ Stored(store)[Len(Stored(store))].Iterations = 2

----------------------------------------------------------------------------
(* Properties of the StaleDetector *)

\* C8: the first Check on a detector fresh from NewStaleDetector returns
\* (false, 0), whatever the revision and the threshold.
C8_FirstCheckSeeds ==
    Len(calls) >= 1
    => /\ calls[1].before.lastHead = ""
       /\ calls[1].before.staleCount = 0
       /\ ~calls[1].abort
       /\ calls[1].staleCount = 0

C8_Witness ==
    /\ Len(calls) = 1 /\ calls[1].head = "a" /\ MaxStale(det) = 1
    /\ ~calls[1].abort /\ calls[1].staleCount = 0

\* C9: every Check after the first whose revision is a commit id (not the
\* empty string) and equals the revision the previous Check recorded
\* returns the previous count plus one and keeps it, and aborts if and only
\* if that count has reached the threshold; with threshold 2 and the same
\* revision three times the calls return (false, 0), (false, 1), (true, 2).
C9_EqualRevisionCounts ==
    \A k \in 2..Len(calls) :
        (calls[k].head # "" /\ calls[k].head = calls[k - 1].head)
        => /\ calls[k].before.lastHead = calls[k].head
           /\ calls[k].staleCount = calls[k].before.staleCount + 1
           /\ calls[k].after.staleCount = calls[k].staleCount
           /\ calls[k].abort <=> calls[k].staleCount >= MaxStale(det)

C9_Witness ==
    /\ Len(calls) = 3 /\ MaxStale(det) = 2
    /\ \A k \in 1..3 : calls[k].head = "a"
    /\ ~calls[1].abort /\ calls[1].staleCount = 0
    /\ ~calls[2].abort /\ calls[2].staleCount = 1
    /\ calls[3].abort /\ calls[3].staleCount = 2

\* C10: every Check after the first whose revision is a commit id (not the
\* empty string) and differs from the revision the previous Check recorded
\* returns (false, 0), leaves count 0 and that revision as the baseline, and
\* a Check of the same revision right after it returns count 1.
C10_DifferentRevisionResets ==
    \A k \in 2..Len(calls) :
        (calls[k].head # "" /\ calls[k].head # calls[k - 1].head)
        => /\ ~calls[k].abort
           /\ calls[k].staleCount = 0
           /\ calls[k].after.staleCount = 0
           /\ calls[k].after.lastHead = calls[k].head
           /\ (k < Len(calls) /\ calls[k + 1].head = calls[k].head)
                 => calls[k + 1].staleCount = 1

C10_Witness ==
    /\ Len(calls) = 4 /\ MaxStale(det) = 2
    /\ calls[1].head = "a" /\ calls[2].head = "a" /\ calls[2].staleCount = 1
    /\ calls[3].head = "b" /\ calls[3].staleCount = 0 /\ ~calls[3].abort
    /\ calls[4].head = "b" /\ calls[4].staleCount = 1 /\ ~calls[4].abort

\* C11: a detector built with max_stale <= 0 is, after any sequence of Check
\* calls, in the same state as a detector built with max_stale = 2 given the
\* same calls, and every Check returned what that detector returned; a
\* detector built with max_stale = k > 0 reports k from MaxStale(), and one
\* built with max_stale <= 0 reports 2.
C11_DefaultThreshold ==
    /\ cfg <= 0 => /\ det = ref
                   /\ MaxStale(det) = 2
                   /\ \A k \in 1..Len(calls) :
                        /\ calls[k].abort = calls[k].refAbort
                        /\ calls[k].staleCount = calls[k].refCount
    /\ cfg > 0 => MaxStale(det) = cfg

C11_Witness ==
    /\ cfg = 0 /\ Len(calls) = 3 /\ calls[3].abort /\ calls[3].refAbort
    /\ calls[3].staleCount = 2 /\ det = ref

----------------------------------------------------------------------------
(* Properties of CumulativeStats *)

\* the sum of f over the sequence s
SumOver(s, f(_)) ==
    LET sum[k \in 0..Len(s)] == IF k = 0 THEN 0 ELSE sum[k - 1] + f(s[k])
    IN  sum[Len(s)]

\* the largest of f over the sequence s, 0 for the empty sequence
MaxOver(s, f(_)) ==
    IF s = <<>> THEN 0
    ELSE CHOOSE m \in {f(s[k]) : k \in 1..Len(s)} :
            \A k \in 1..Len(s) : f(s[k]) <= m

\* C12: after Update has been called with the IterationStats of folded, in
\* order, on a zero CumulativeStats, Iterations is their number, PeakContext
\* the largest of their peaks (not the sum), SubagentTokens the sum of their
\* sub-agent tokens and TotalCost the sum of their costs; folding peaks 100
\* and 50 with sub-agent tokens 10 and 20 gives peak 100, 30 tokens and 2
\* iterations.
C12_UpdateFolds ==
    /\ acc.Iterations = Len(folded)
    /\ acc.PeakContext = MaxOver(folded, LAMBDA x : x.PeakContext)
    /\ acc.SubagentTokens = SumOver(folded, LAMBDA x : x.SubagentTokens)
    /\ acc.TotalCost = SumOver(folded, LAMBDA x : x.Cost)

C12_Witness ==
    /\ Len(folded) = 2
    /\ folded[1].PeakContext = 100 /\ folded[2].PeakContext = 50
    /\ folded[1].SubagentTokens = 10 /\ folded[2].SubagentTokens = 20
    /\ acc = [Iterations |-> 2, PeakContext |-> 100, SubagentTokens |-> 30,
              TotalCost |-> 35]

----------------------------------------------------------------------------
(* Properties of stream.Process *)

\* the event Next returned in this step
Delivered == events'[Len(events')]

\* input + cache-creation + cache-read tokens of an assistant event's usage
ContextOf(e) ==
    e.Message.Usage.InputTokens + e.Message.Usage.CacheCreationInputTokens
    + e.Message.Usage.CacheReadInputTokens

\* the assistant events that carry a usage snapshot
WithUsage(evs) ==
    SelectSeq(evs, LAMBDA e : /\ e.Type = "assistant"
                              /\ e.Message.present
                              /\ e.Message.Usage.present)

\* C15: whatever events Process has consumed, and so when it returns,
\* stats.PeakContext is the largest input + cache-creation + cache-read of
\* the assistant events among them that carry a usage, and 0 if there is
\* none: output tokens do not count and nothing is added across events.
C15_PeakContextIsMaximum ==
    procStats.PeakContext = MaxOver(WithUsage(events), ContextOf)

C15_Witness ==
    /\ procErr = "nil" /\ Len(WithUsage(events)) = 2
    /\ ContextOf(events[1]) = MaxTokens
    /\ events[1].Message.Usage.OutputTokens = MaxTokens + 2
    /\ ContextOf(events[2]) = 2 * MaxTokens + 1
    /\ procStats.PeakContext = 2 * MaxTokens + 1

\* the user events whose tool result carries a non-zero total token count
SubagentResults(evs) ==
    SelectSeq(evs, LAMBDA e : /\ e.Type = "user"
                              /\ e.ToolUseResult.present
                              /\ e.ToolUseResult.TotalTokens # 0)

\* C16: whatever events Process has consumed, stats.SubagentTokens is the
\* sum of the total token counts of the user events among them whose tool
\* result carries a non-zero count; and consuming a user event with no tool
\* result, or with a count of zero, changes no statistic and writes nothing.
C16_SubagentTokensSum ==
    /\ [](procStats.SubagentTokens =
             SumOver(SubagentResults(events), LAMBDA e : e.ToolUseResult.TotalTokens))
    /\ [][(/\ events' # events
           /\ Delivered.Type = "user"
           /\ (~Delivered.ToolUseResult.present
               \/ Delivered.ToolUseResult.TotalTokens = 0))
          => (procStats' = procStats /\ sink' = sink /\ procErr' = "running")]_vars

C16_Witness ==
    /\ procErr = "nil" /\ Len(events) = 3 /\ Len(SubagentResults(events)) = 2
    /\ events[1].ToolUseResult.TotalTokens = MaxTokens
    /\ events[2].Type = "user" /\ events[2].ToolUseResult.present
    /\ events[2].ToolUseResult.TotalTokens = 0
    /\ events[3].ToolUseResult.TotalTokens = MaxTokens + 1
    /\ procStats.SubagentTokens = 2 * MaxTokens + 1
    /\ Len(sink) = 2

\* the result events
Results(evs) == SelectSeq(evs, LAMBDA e : e.Type = "result")

\* C17: whatever events Process has consumed, stats.Cost is the cost the
\* last result event among them reported (not a sum), and 0 if there is no
\* result event.
C17_CostIsLastResult ==
    procStats.Cost = IF Results(events) = <<>> THEN 0
                     ELSE Results(events)[Len(Results(events))].TotalCostUSD

C17_Witness ==
    /\ procErr = "nil" /\ Len(Results(events)) = 2
    /\ Results(events)[1].TotalCostUSD = MaxCost + 1
    /\ Results(events)[2].TotalCostUSD = MaxCost
    /\ procStats.Cost = MaxCost

\* C18: consuming an event whose type is not assistant, user or result (a
\* system event, an unknown type, no type at all) changes no statistic and
\* writes nothing, and Process goes on; consuming a result event writes
\* nothing.
C18_SystemAndUnknownIgnored ==
    [][events' # events
       => /\ Delivered.Type \notin {"assistant", "user", "result"}
               => (procStats' = procStats /\ sink' = sink /\ procErr' = "running")
          /\ Delivered.Type = "result"
               => (sink' = sink /\ procErr' = "running")]_vars

C18_Witness ==
    /\ procErr = "nil" /\ Len(events) = 3
    /\ events[1].Type = "system" /\ events[2].Type = "rate_limit"
    /\ events[3].Type = "result"
    /\ sink = <<>>
    /\ procStats = [ZeroIterStats EXCEPT !.Cost = MaxCost]

\* the events of the non-blank lines that decode, in the lines' order
Decoded(lines) ==
    LET good == SelectSeq(lines, LAMBDA l : l.form # "blank" /\ Decode(l).ok)
    IN  [k \in 1..Len(good) |-> Decode(good[k]).evt]

\* C19: the events the parser has returned are at every moment the events
\* of the non-blank lines that decode among the lines it has consumed, one
\* each and in their order; when it reports the end of the stream it has
\* consumed every line, so that blank lines and lines that do not decode
\* took nothing from the lines around them; and it raises an error only
\* for a line longer than its buffer or a failing reader, never for a blank
\* line or one that does not decode. One invalid, one blank and two valid
\* lines give two events and no error.
C19_ParserSkipsBadLines ==
    /\ events = Decoded(SubSeq(input, 1, scanned))
    /\ procErr = "nil" => scanned = Len(input)
    /\ procErr \in {"running", "nil"} \cup ScanErrors
    /\ procErr = "scanning stream: token too long"
         => (scanned < Len(input) /\ input[scanned + 1].form = "toolong")

C19_Witness ==
    /\ Len(input) = 4
    /\ input[1].form = "malformed" /\ input[2].form = "blank"
    /\ input[3].form = "object" /\ input[4].form = "object"
    /\ procErr = "nil"
    /\ events = <<input[3].evt, input[4].evt>>
    /\ input[3].evt # input[4].evt

----------------------------------------------------------------------------
(* Properties of the run-record store *)

\* C20: a Load of a path where no file exists (nothing has been persisted
\* there, and os.ReadFile says so) returns an empty history and no error.
C20_LoadMissingIsEmpty ==
    (lastLoad.called /\ lastLoad.before.kind = "missing" /\ ~lastLoad.readFails)
    => (lastLoad.ok /\ lastLoad.runs = <<>>)

C20_Witness ==
    /\ lastLoad.called /\ lastLoad.before.kind = "missing" /\ ~lastLoad.readFails
    /\ lastLoad.ok /\ lastLoad.runs = <<>>
    /\ file.kind = "missing"

----------------------------------------------------------------------------
(* The iteration logs of one run *)

\* the lines an agent writes: a blank one, a malformed one and an event
LogLines ==
    {LineOf("blank", ZeroEvent), LineOf("malformed", ZeroEvent),
     LineOf("object", EventOf(eventResult, NoMessage, NoToolUseResult, MaxCost))}

\* what one Read of the agent's stdout can return
Chunks == UNION {[1..n -> LogLines] : n \in 1..MaxRead}

\* os.Create(path): the file exists and is empty, whatever it held
Create(files, name) ==
    [files EXCEPT ![name] = [exists |-> TRUE, content |-> <<>>]]

\* (*Writer).Write through the open file: n lines of p reach the file
Write(files, name, p, n) ==
    [files EXCEPT ![name].content = @ \o SubSeq(p, 1, n)]

\* time passes
LogTick ==
    /\ logPc \in {"top", "claude"}
    /\ clock < MaxClock
    /\ clock' = clock + 1
    /\ UNCHANGED <<logFiles, logW, logPaths, consumed, logPc>>
    /\ UNCHANGED outsideLogs

\* line 337: logfile.New(opts.LogsDir) at the start of an iteration
LogNew ==
    /\ logPc = "top"
    /\ Len(consumed) < MaxLogged
    /\ \E created \in BOOLEAN :
         IF created
         THEN /\ logFiles' = Create(logFiles, LogName(clock))
              /\ logW' = [open |-> TRUE, path |-> LogName(clock), err |-> FALSE]
              /\ consumed' = Append(consumed, <<>>)
              /\ logPc' = "claude"
         ELSE /\ logPc' = "done"
              /\ UNCHANGED <<logFiles, logW, consumed>>
    /\ UNCHANGED <<clock, logPaths>>
    /\ UNCHANGED outsideLogs

\* runClaude lines 471-472: one Read of io.TeeReader(stdout, logW) by the
\* parser's scanner. What stdout returned is written to logW first; the
\* reader is handed as many bytes as the Write reports, with its error
LogTee ==
    /\ logPc = "claude"
    /\ ~logW.err
    /\ \E p \in Chunks :
         /\ Len(consumed[Len(consumed)]) + Len(p) <= MaxRead
         /\ \E n \in 0..Len(p) :
              /\ logFiles' = Write(logFiles, logW.path, p, n)
              /\ consumed' = [consumed EXCEPT ![Len(consumed)] = @ \o SubSeq(p, 1, n)]
              /\ logW' = [logW EXCEPT !.err = n < Len(p)]
    /\ UNCHANGED <<clock, logPaths, logPc>>
    /\ UNCHANGED outsideLogs

\* lines 342-348: runClaude returns (the stream ended, or a read failed);
\* Run closes the log, records its path, and returns if runClaude failed
LogClose ==
    /\ logPc = "claude"
    /\ logW' = [logW EXCEPT !.open = FALSE]
    /\ logPaths' = Append(logPaths, logW.path)
    /\ logPc' = IF logW.err THEN "done" ELSE "top"
    /\ UNCHANGED <<clock, logFiles, consumed>>
    /\ UNCHANGED outsideLogs

\* the loop ends (budget, cancellation or stale abort) and saveState copies
\* logPaths into the RunRecord
LogExit ==
    /\ logPc = "top"
    /\ logPc' = "done"
    /\ UNCHANGED <<clock, logFiles, logW, logPaths, consumed>>
    /\ UNCHANGED outsideLogs

InitLogs ==
    /\ clock = 0
    /\ logFiles = [name \in LogNames |-> NoFile]
    /\ logW = NoWriter
    /\ logPaths = <<>>
    /\ consumed = <<>>
    /\ logPc = "top"
    /\ IdleLoop
    /\ IdleDetector
    /\ IdleStats
    /\ IdleStream
    /\ IdleStore
    /\ IdleTokens

NextLogs ==
    \/ LogTick
    \/ LogNew
    \/ LogTee
    \/ LogClose
    \/ LogExit

SpecLogs == InitLogs /\ [][NextLogs]_vars

----------------------------------------------------------------------------
(* FormatTokens alone *)

\* token counts where the rendering changes shape or its last digit
TokenBoundaries ==
    {0, 1000, 1100, 10000, 45400, 100000, 1000000, 1500000, 1560000,
     10000000, 1000000000}

\* the counts handed to FormatTokens: every boundary and its neighbourhood
TokenSamples ==
    {n \in {b + d : b \in TokenBoundaries, d \in (0 - MaxSpread)..MaxSpread} :
        n >= 0}

\* one FormatTokens(n) call
FormatTokensCall ==
    /\ tokenText = ""
    /\ tokenText' = FormatTokens(tokenCount)
    /\ UNCHANGED tokenCount
    /\ UNCHANGED outsideTokens

InitTokens ==
    /\ tokenCount \in TokenSamples
    /\ tokenText = ""
    /\ IdleLoop
    /\ IdleDetector
    /\ IdleStats
    /\ IdleStream
    /\ IdleStore
    /\ IdleLogs

NextTokens == FormatTokensCall

SpecTokens == InitTokens /\ [][NextTokens]_vars

----------------------------------------------------------------------------
(* Properties of the loop's persistence step *)

\* C22: the run history is append-only. Once Run has made its persistence
\* step on a state file that held a history, every record of that history is
\* still in the file, unchanged and in the same order, and when the step
\* wrote the file the newly built record follows them.
C22_HistoryAppendOnly ==
    (pc = "done" /\ obs.summarised /\ opts.StateFile # ""
     /\ obs.store0.kind = "valid")
    => /\ store.kind = "valid"
       /\ Len(Stored(store)) >= Len(Stored(obs.store0))
       /\ SubSeq(Stored(store), 1, Len(Stored(obs.store0))) = Stored(obs.store0)
       /\ obs.writeOk =>
            Stored(store) =
              Append(Stored(obs.store0),
                     BuildRecord(opts, cumStats, cancelled, staleAborted))

\* C23: Save is atomic for whoever reads the path. After a Save call on a
\* file that held a history (or did not exist), however the call ended, a
\* Load that can read the file returns either the complete history the file
\* held before the call or the complete history handed to Save.
C23_SaveIsAtomic ==
    (/\ lastSave.called /\ lastSave.before.kind # "corrupt"
     /\ lastLoad.called /\ ~lastLoad.readFails)
    => /\ lastLoad.ok
       /\ \/ lastLoad.runs = Stored(lastSave.before)
          \/ lastLoad.runs = lastSave.history

\* C24: every iteration gets a log file of its own. The paths Run recorded
\* are pairwise distinct, one per agent invocation that returned, and the
\* writer of a running iteration is on none of the files of the iterations
\* before it.
C24_OneLogPerIteration ==
    /\ \A j, k \in 1..Len(logPaths) : j # k => logPaths[j] # logPaths[k]
    /\ Len(logPaths) = Len(consumed) - (IF logW.open THEN 1 ELSE 0)
    /\ logW.open => \A k \in 1..Len(logPaths) : logPaths[k] # logW.path

\* C25: the log file of an iteration holds exactly what the parser's reader
\* was handed during that iteration, in order and unchanged, blank and
\* malformed lines included.
C25_LogIsWhatTheParserRead ==
    \A k \in 1..Len(logPaths) :
        /\ logFiles[logPaths[k]].exists
        /\ logFiles[logPaths[k]].content = consumed[k]

----------------------------------------------------------------------------
(* Properties of FormatTokens *)

\* the digits of m tenths: the integer part, a point, one decimal digit
Tenths(m) == ToString(m \div 10) \o "." \o ToString(m % 10)

\* the number of whole units of size unit in n, found without dividing
Floor(n, unit) ==
    CHOOSE m \in ((n \div unit) - 1)..((n \div unit) + 1) :
        m * unit <= n /\ n < (m + 1) * unit

\* C26: FormatTokens(n) for n >= 0. Below 1000 it is the plain integer; from
\* 1000 up to 999999 it is floor(n/100) tenths with one decimal digit and the
\* suffix k; from 1000000 on it is floor(n/100000) tenths with one decimal
\* digit and the suffix M. The digit is cut, never rounded: 45399 gives
\* 45.3k, 999999 gives 999.9k and 1559999 gives 1.5M.
C26_FormatTokensTruncates ==
    tokenText # "" =>
        /\ tokenCount < 1000 => tokenText = ToString(tokenCount)
        /\ (1000 <= tokenCount /\ tokenCount < 1000000)
             => tokenText = Tenths(Floor(tokenCount, 100)) \o "k"
        /\ tokenCount >= 1000000
             => tokenText = Tenths(Floor(tokenCount, 100000)) \o "M"
        /\ tokenCount = 999 => tokenText = "999"
        /\ tokenCount = 1000 => tokenText = "1.0k"
        /\ tokenCount = 45399 => tokenText = "45.3k"
        /\ tokenCount = 45400 => tokenText = "45.4k"
        /\ tokenCount = 999999 => tokenText = "999.9k"
        /\ tokenCount = 1000000 => tokenText = "1.0M"
        /\ tokenCount = 1559999 => tokenText = "1.5M"

C26_Witness ==
    /\ tokenCount = 1559999
    /\ tokenText = "1.5M"

----------------------------------------------------------------------------
(* Properties of an iteration of Run *)

----------------------------------------------------------------------------
(* Properties of Process on errors *)

\* the stats after folding every one of the events, oldest first
RECURSIVE FoldedStats(_)
FoldedStats(evs) ==
    IF evs = <<>> THEN ZeroIterStats
    ELSE Accumulate(FoldedStats(SubSeq(evs, 1, Len(evs) - 1)), evs[Len(evs)])

\* the tool_use blocks of the assistant events
ToolUses(evs) ==
    SumOver(evs, LAMBDA e :
        IF e.Type = eventAssistant /\ e.Message.present
        THEN Len(SelectSeq(e.Message.Content, LAMBDA b : b.Type = contentToolUse))
        ELSE 0)

\* C28: Process never discards the statistics. When it stops because reading
\* the stream or writing the transcript failed, the IterationStats it returns
\* with the error holds every event the parser delivered before the failure,
\* the one whose rendering failed included.
C28_StatsReturnedWithError ==
    (procRet.done /\ procRet.err # "nil")
    => /\ procRet.err = procErr
       /\ procRet.stats = FoldedStats(events)
       /\ procRet.stats.ToolCalls = ToolUses(events)
       /\ procRet.stats.SubagentTokens =
            SumOver(SubagentResults(events), LAMBDA e : e.ToolUseResult.TotalTokens)

C28_Witness ==
    /\ procRet.done /\ procRet.err = "writing"
    /\ Len(events) = 2
    /\ events[2].Type = eventAssistant
    /\ procRet.stats.PeakContext > 0
    /\ procRet.stats.ToolCalls = 1
    /\ procRet.stats.SubagentTokens > 0

----------------------------------------------------------------------------
(* Properties of the StaleDetector's seeding *)

\* C29: seeding is a state change for every revision value. After the first
\* Check(x) on a fresh detector the baseline is x and the detector is seeded,
\* so a second Check(x) right after it returns count 1, whatever string x is.
C29_SeedingForEveryRevision ==
    (Len(calls) >= 2 /\ calls[2].head = calls[1].head)
    => /\ calls[1].after.lastHead = calls[1].head
       /\ calls[1].after # calls[1].before
       /\ calls[2].staleCount = 1

----------------------------------------------------------------------------
(* Properties of the order of an iteration's steps *)

\* C30: within an iteration the publish attempt comes after the agent
\* invocation has returned and before the iteration's stats are folded and
\* its summary is rendered, which come before the revision is read again
\* and fed to the detector.
C30_PublishThenFold ==
    [][/\ (pc = "push" /\ pc' = "check")
           => /\ obs.completed = obs.pushes + 1
              /\ cumStats.Iterations = obs.pushes
              /\ obs.rendered = obs.pushes
       /\ (pc = "check" /\ pc' \in {"top", "exit"})
           => /\ obs.pushes = obs.completed
              /\ cumStats.Iterations = obs.completed
              /\ obs.rendered = obs.completed]_vars

\* C30, amended: within an iteration the stats are folded and the summary is
\* rendered when the agent invocation has returned and before the publish
\* attempt; the publish attempt, with its fallback, comes after them and
\* before the revision is read again and fed to the detector.
C30_FoldThenPublish ==
    [][/\ (pc = "claude" /\ pc' = "push")
           => /\ obs'.completed = obs.completed + 1
              /\ cumStats'.Iterations = cumStats.Iterations + 1
              /\ obs'.rendered = obs.rendered + 1
              /\ obs'.pushes = obs.pushes
       /\ (pc = "push" /\ pc' = "check")
           => /\ obs.completed = obs.pushes + 1
              /\ cumStats.Iterations = obs.completed
              /\ obs.rendered = obs.completed
              /\ obs'.pushes = obs.pushes + 1
              /\ cumStats' = cumStats /\ stale' = stale
       /\ (pc = "check" /\ pc' \in {"top", "exit"})
           => /\ obs.pushes = obs.completed
              /\ cumStats.Iterations = obs.completed
              /\ obs.rendered = obs.completed
              /\ stale' = Check(stale, stale'.lastHead).d
              /\ cumStats' = cumStats /\ obs'.pushes = obs.pushes]_vars

\* the second iteration's stats are folded and its summary is rendered, and
\* its publish attempt has not been made yet
C30_Witness ==
    /\ pc = "push"
    /\ obs.completed = 2 /\ cumStats.Iterations = 2 /\ obs.rendered = 2
    /\ obs.pushes = 1

----------------------------------------------------------------------------
(* Properties of Run's exit *)

\* C31: a failure to load or to save the run history never changes the
\* loop's outcome. Whatever Load and Save do at exit, Run has printed the
\* final summary over its CumulativeStats before it calls saveState, and it
\* returns what the way it left the loop asks for: the cancellation error
\* after a cancelled boundary, nil after a stale abort or an exhausted budget.
C31_PersistenceNeverChangesOutcome ==
    /\ [][(pc = "exit" /\ pc' = "done")
            => /\ obs'.summarised /\ obs'.summary = cumStats
               /\ result' = (IF cancelled /\ ~staleAborted THEN CtxCanceled
                             ELSE NilError)
               /\ cumStats' = cumStats]_vars
    /\ [](TerminalRun
            => /\ obs.summary = cumStats
               /\ IsCanceled(result) <=> obs.boundary = "cancelled"
               /\ result = NilError <=> obs.boundary # "cancelled")

\* a run that could neither load nor write its state file ended cancelled,
\* with its summary printed and the cancellation returned
C31_Witness ==
    /\ TerminalRun /\ opts.StateFile # ""
    /\ ~obs.loadOk /\ ~obs.writeOk
    /\ obs.store0.kind = "valid" /\ store.kind = "corrupt"
    /\ obs.completed = 1 /\ obs.summary.Iterations = 1
    /\ IsCanceled(result)

----------------------------------------------------------------------------
(* Properties of the stale abort *)

\* C32: Run stops with stale_abort only after at least max_stale iterations
\* in a row in each of which the revision read after the agent invocation
\* equals the one read before it; and an iteration whose revision after
\* differs from its revision before resets the progress toward the abort:
\* the detector's count is 0 after it.
C32_AbortOnlyAfterMaxStaleInARow ==
    /\ [](staleAborted => obs.staleRun >= MaxStale(stale))
    /\ [][(pc = "check" /\ pc' \in {"top", "exit"}
             /\ stale'.lastHead # headBefore)
            => stale'.staleCount = 0]_vars

----------------------------------------------------------------------------
(* Properties of the recorded status *)

\* C33: when a run with an iteration budget leaves the loop because the next
\* iteration index exceeds the budget (it was neither stale-aborted nor
\* cancelled), the record it persists has status max_iterations; and a
\* record with status completed is persisted only by a run with no budget.
C33_BudgetStopIsMaxIterations ==
    /\ (TerminalRun /\ obs.boundary = "max")
        => /\ opts.MaxIterations > 0
           /\ ~staleAborted /\ ~cancelled
           /\ cumStats.Iterations = opts.MaxIterations
           /\ Writable => LastStatus(StatusMaxIterations)
    /\ (TerminalRun /\ Writable /\ LastStatus(StatusCompleted))
        => opts.MaxIterations = 0

C33_Witness ==
    /\ TerminalRun /\ obs.boundary = "max"
    /\ opts.MaxIterations = 2 /\ cumStats.Iterations = 2
    /\ Writable /\ LastStatus(StatusMaxIterations)
    /\ Len(Stored(store)) = 2

\* C34: at an iteration boundary the budget check comes before the
\* cancellation check. When the budget is exhausted and the context has been
\* cancelled as well (after the last invocation returned without error), Run
\* leaves the loop without setting cancelled, returns nil and, where it can
\* write the state file, records status max_iterations.
C34_BudgetBeforeCancellation ==
    /\ [][(pc = "top" /\ BudgetExhausted(opts, i) /\ ctxErr)
            => (pc' = "exit" /\ ~cancelled' /\ obs'.boundary = "max")]_vars
    /\ [](TerminalRun /\ ctxErr /\ BudgetExhausted(opts, i)
            => /\ ~cancelled
               /\ result = NilError
               /\ Writable => LastStatus(StatusMaxIterations))

\* the context was cancelled after the second and last invocation had
\* returned, and the run ended on its budget
C34_Witness ==
    /\ TerminalRun /\ ctxErr /\ ~obs.preCancel /\ ~obs.midCancel
    /\ opts.MaxIterations = 2 /\ obs.completed = 2 /\ i = 3
    /\ result = NilError
    /\ Writable /\ LastStatus(StatusMaxIterations)


\* C35: Process returns an error only when reading the stream or writing to
\* the sink fails: whenever it has returned an error, the error is the
\* scanner's or the writer's, and no decoded event, a Task block whose input
\* is absent or not an object included, makes it return early with an error.
C35_ErrorsOnlyFromReadOrWrite ==
    (procRet.done /\ procRet.err # "nil")
        => procRet.err \in ScanErrors \cup {"writing"}


\* the place of the first line longer than the scanner's buffer, 0 when the
\* stream has none
FirstTooLong(lines) ==
    LET long == {k \in 1..Len(lines) : lines[k].form = "toolong"}
    IN  IF long = {} THEN 0 ELSE CHOOSE k \in long : \A m \in long : k <= m

\* C36: a line longer than the parser's buffer is not skipped as a line
\* that does not decode is. The scanner never gets past the first such line,
\* so the events delivered are never more than those of the lines before it;
\* Process never ends on such a stream with the end of the stream, only with
\* an error; and when the error is the scanner's for the long line, every
\* event of the lines before it has been delivered and none of a later line.
C36_TooLongLineStopsTheParser ==
    LET t == FirstTooLong(input)
    IN  t # 0 =>
          /\ scanned < t
          /\ events = Decoded(SubSeq(input, 1, scanned))
          /\ procRet.done => procRet.err # "nil"
          /\ procRet.err = "scanning stream: token too long"
               => /\ procRet.done
                  /\ scanned = t - 1
                  /\ events = Decoded(SubSeq(input, 1, t - 1))

\* an event, a line that is too long, another event: one event and the error
C36_Witness ==
    /\ Len(input) = 3
    /\ input[1].form = "object" /\ input[2].form = "toolong"
    /\ input[3].form = "object"
    /\ procRet.done /\ procRet.err = "scanning stream: token too long"
    /\ events = <<input[1].evt>>

====
